---------------------------- MODULE Spec2Model ----------------------------
(***************************************************************************)
(* TempHumidityMonitor.py: a DHT11 sensor is polled and its temperature    *)
(* and humidity are written to two registers of a SmartDisplay over        *)
(* Modbus.  The model follows main(): the command line is parsed one       *)
(* argument at a time, the instrument and the sensor are created, and the  *)
(* while-True loop reads, publishes and sleeps.                            *)
(*                                                                         *)
(* Strings that the program inspects character by character (the command   *)
(* line arguments) are tuples of one-character strings.  Times are in      *)
(* hundredths of a second.  Exceptions are named by their Python class.    *)
(* The sensor, the serial port and the display are the environment: each   *)
(* call into them returns or raises any of the outcomes listed for it.     *)
(***************************************************************************)
EXTENDS Integers, Sequences, FiniteSets, TLC

VARIABLES
    argv,         \* sys.argv, argv[1] being the script name
    argi,         \* position of the for loop of parse_commandline in argv
    mode,         \* parse_commandline: local mode
    baudrate,     \* parse_commandline: local baudrate
    portname,     \* parse_commandline: local portname
    inst,         \* the minimalmodbus.Instrument of main, or NoInst
    sensor,       \* TRUE once adafruit_dht.DHT11(DHT_PIN) has been created
    pc,           \* position of main
    stdout,       \* the messages printed by the program's own print calls
    exc,          \* class of the exception that left main uncaught, or None
    temp,         \* main: local temp (never read before its first assignment)
    humidity,     \* main: local humidity
    tempFresh,    \* temp was assigned in the current iteration of the loop
    humFresh,     \* humidity was assigned in the current iteration
    regs,         \* the registers of the display (the slave), by address
    inflight,     \* the write request awaiting its reply, or None
    cycleWrites,  \* the frames transmitted in the current iteration
    cycleDur,     \* time spent in the sensor reads and writes of an iteration
    waited,       \* time slept since the last iteration's try block ended
    lastOutcome,  \* how the last iteration's try block ended
    ackDiff,      \* acknowledged temperature writes minus humidity writes
    shownBefore,  \* the registers of the display when the iteration began
    sensorInts    \* the integers the sensor of this run can return

vars == <<argv, argi, mode, baudrate, portname, inst, sensor, pc, stdout, exc,
          temp, humidity, tempFresh, humFresh, regs, inflight, cycleWrites,
          cycleDur, waited, lastOutcome, ackDiff, shownBefore, sensorInts>>

startupVars == <<argv, argi, mode, baudrate, portname, inst, sensor, stdout>>
loopVars == <<temp, humidity, tempFresh, humFresh, regs, inflight,
              cycleWrites, cycleDur, waited, lastOutcome, ackDiff, shownBefore>>

-----------------------------------------------------------------------------
(* Module constants of the program *)

SLAVE_ADDRESS == 123
TIMEOUT == 30
SleepDelay == 200
DEFAULT_BAUDRATE == 115200
DEFAULT_PORT_NAME == <<"/", "d", "e", "v", "/", "t", "t", "y", "U", "S", "B", "0">>
MODE_RTU == "rtu"
MODE_ASCII == "ascii"
TempAddressValue2 == 1 * 100 + 7
TEMP_ADDRESS == 1 * 100 + 6
HUMIDITY_ADDRESS == 3 * 100 + 6

None == "None"

(* main before the instrument exists, and an instrument without a serial  *)
(* object (inst.serial is None)                                           *)
NoInst == [created |-> FALSE]
NoSerial == [none |-> TRUE]

(* A sensor value: the empty tuple for Python's None, <<v>> for the      *)
(* integer v.  A request in flight is held the same way.                 *)
NoValue == <<>>
Int16(v) == <<v>>
IsNone(x) == Len(x) = 0

-----------------------------------------------------------------------------
(* Bounds of the model *)

MaxArgs == 2
MaxSmall == 1
MaxReadDur == 1

-----------------------------------------------------------------------------
(* The command line *)

ScriptName == <<"m", ".", "p", "y">>

ArgAscii == <<"-", "a", "s", "c", "i", "i">>
ArgRtu == <<"-", "r", "t", "u">>
ArgB == <<"-", "b">>
ArgB9600 == <<"-", "b", "9", "6", "0", "0">>
ArgB2400 == <<"-", "b", "2", "4", "0", "0">>
ArgBx == <<"-", "b", "x">>
ArgD == <<"-", "D">>
ArgDCOM4 == <<"-", "D", "C", "O", "M", "4">>
ArgAsciix == <<"-", "a", "s", "c", "i", "i", "x">>

Args == {ArgAscii, ArgRtu, ArgB, ArgB9600, ArgB2400, ArgBx, ArgD, ArgDCOM4,
         ArgAsciix}

RECURSIVE SeqsUpTo(_, _)
SeqsUpTo(S, n) ==
    IF n = 0 THEN {<<>>}
    ELSE LET shorter == SeqsUpTo(S, n - 1)
         IN  shorter \cup {Append(s, x) : s \in shorter, x \in S}

ArgvSet == {<<ScriptName>> \o s : s \in SeqsUpTo(Args, MaxArgs)}

(* str.startswith *)
StartsWith(s, prefix) ==
    /\ Len(s) >= Len(prefix)
    /\ SubSeq(s, 1, Len(prefix)) = prefix

(* arg[2:] *)
From2(s) == SubSeq(s, 3, Len(s))

Digits == <<"0", "1", "2", "3", "4", "5", "6", "7", "8", "9">>

IsDigit(c) == \E d \in 1..10 : Digits[d] = c
DigitValue(c) == (CHOOSE d \in 1..10 : Digits[d] = c) - 1

(* int(s) accepts a non-empty string of decimal digits (of the characters *)
(* of Args; signs, blanks and underscores do not occur in them).          *)
IntAccepts(s) == Len(s) > 0 /\ \A k \in 1..Len(s) : IsDigit(s[k])

RECURSIVE IntOf(_)
IntOf(s) ==
    IF Len(s) = 0 THEN 0
    ELSE 10 * IntOf(SubSeq(s, 1, Len(s) - 1)) + DigitValue(s[Len(s)])

UsageB == "Wrong usage of the -b option. Use -b9600"
UsageD == "Wrong usage of the -D option. Use -D/dev/ttyUSB0 or -DCOM4"
SerialIsNone == "Instrument.serial is None"

-----------------------------------------------------------------------------
(* Exceptions *)

TransportErrors == {"NoResponseError", "InvalidResponseError", "SlaveReportedException"}

(* isinstance(error, RuntimeError): the class the loop absorbs *)
IsRuntimeError(e) == e = "RuntimeError"


(* What the sensor properties raise: RuntimeError for a reading that did  *)
(* not come through, another class for anything else.  What a transmitted *)
(* write raises: the transport errors of minimalmodbus, all of them       *)
(* IOError classes.  The handlers of main dispatch on the class alone.    *)
SensorErrors == {"RuntimeError", "OSError"}
WriteErrorsIncludeTransient == TransportErrors \cup {"RuntimeError"}

WriteErrors == TransportErrors

-----------------------------------------------------------------------------
(* The sensor and the display *)

SensorIntsFull == {-1} \cup (0..MaxSmall) \cup {300, 65535, 65536}
SensorIntsSmall == {-1, 300}

(* The argument lists run with the full range of sensor values *)
LoopArgvSet == {<<ScriptName>>, <<ScriptName, ArgAscii, ArgB2400>>}

(* The Set Value registers of widgets 1 and 3 of the display's layout *)
RegisterAddresses == {1 * 100 + 6, 3 * 100 + 6}

(* The display answers the slave identifier of its specification *)
DisplaySlaveId == SLAVE_ADDRESS

(* write_register(address, value) with its defaults: an unsigned 16-bit  *)
(* register, sent as two bytes, the most significant first.              *)
NoneRaises == "TypeError"
RangeRaises == "ValueError"
FitsRegister(v) == v \in 0..65535

Frame(slave, address, v) ==
    [slave |-> slave, address |-> address, hi |-> v \div 256, lo |-> v % 256]

(* The value the display stores for a frame *)
Stored(frame) == frame.hi * 256 + frame.lo

-----------------------------------------------------------------------------
Init ==
    /\ \/ argv \in ArgvSet /\ sensorInts = SensorIntsSmall
       \/ argv \in LoopArgvSet /\ sensorInts = SensorIntsFull
    /\ argi = 1
    /\ mode = MODE_RTU
    /\ baudrate = DEFAULT_BAUDRATE
    /\ portname = DEFAULT_PORT_NAME
    /\ inst = NoInst
    /\ sensor = FALSE
    /\ pc = "parse"
    /\ stdout = <<>>
    /\ exc = None
    /\ temp = NoValue
    /\ humidity = NoValue
    /\ tempFresh = FALSE
    /\ humFresh = FALSE
    /\ regs = [a \in RegisterAddresses |-> 0]
    /\ inflight = <<>>
    /\ cycleWrites = <<>>
    /\ cycleDur = 0
    /\ waited = 0
    /\ lastOutcome = [end |-> "none", at |-> "none", error |-> None]
    /\ ackDiff = 0
    /\ shownBefore = regs

-----------------------------------------------------------------------------
(* parse_commandline: one iteration of "for arg in argv" on the locals    *)
(* st = [mode, baudrate, portname].  The result adds what the iteration   *)
(* printed and the exception it raised (None when it fell through).       *)
TooShortOffByOne(arg) == Len(arg) < 2

(* len(arg) < 3: the option carries no value *)
TooShort(arg) == Len(arg) < 3

SetBaudrateOnce(st, b) ==
    IF st.baudrate = DEFAULT_BAUDRATE THEN [st EXCEPT !.baudrate = b] ELSE st

(* baudrate = int(arg[2:]) *)
SetBaudrate(st, b) == [st EXCEPT !.baudrate = b]

ParseArg(arg, st) ==
    LET ok(new) == [st |-> new, printed |-> <<>>, raised |-> None]
        exit(msg) == [st |-> st, printed |-> <<msg>>, raised |-> "SystemExit"]
        fail(e) == [st |-> st, printed |-> <<>>, raised |-> e]
    IN  IF StartsWith(arg, ArgAscii) THEN ok([st EXCEPT !.mode = MODE_ASCII])
        ELSE IF StartsWith(arg, ArgRtu) THEN ok([st EXCEPT !.mode = MODE_RTU])
        ELSE IF StartsWith(arg, ArgB) THEN
            IF TooShort(arg) THEN exit(UsageB)
            ELSE IF IntAccepts(From2(arg))
                 THEN ok(SetBaudrate(st, IntOf(From2(arg))))
                 ELSE fail("ValueError")
        ELSE IF StartsWith(arg, ArgD) THEN
            IF TooShort(arg) THEN exit(UsageD)
            ELSE ok([st EXCEPT !.portname = From2(arg)])
        ELSE ok(st)

ParseStep ==
    /\ pc = "parse"
    /\ argi <= Len(argv)
    /\ LET r == ParseArg(argv[argi],
                         [mode |-> mode, baudrate |-> baudrate, portname |-> portname])
       IN  /\ mode' = r.st.mode
           /\ baudrate' = r.st.baudrate
           /\ portname' = r.st.portname
           /\ stdout' = stdout \o r.printed
           /\ exc' = r.raised
           /\ pc' = IF r.raised = None THEN "parse" ELSE "exited"
    /\ argi' = argi + 1
    /\ UNCHANGED <<argv, inst, sensor, sensorInts>>
    /\ UNCHANGED loopVars

ParseReturn ==
    /\ pc = "parse"
    /\ argi > Len(argv)
    /\ pc' = "create_inst"
    /\ UNCHANGED <<startupVars, exc, sensorInts>>
    /\ UNCHANGED loopVars

(* minimalmodbus.Instrument(portname, SLAVE_ADDRESS, mode=mode): the port *)
(* is opened with the library's defaults, 19200 baud and 0.05 s timeout.  *)
NewInstrument(port, m) ==
    [port |-> port, slaveaddress |-> SLAVE_ADDRESS, mode |-> m,
     serial |-> [baudrate |-> 19200, timeout |-> 5]]

(* The port opens; or the instrument has no serial object, which main     *)
(* reports and returns on; or opening the port raises.                    *)
CreateInstrument ==
    /\ pc = "create_inst"
    /\ \/ /\ inst' = NewInstrument(portname, mode)
          /\ pc' = "configure"
          /\ UNCHANGED <<stdout, exc>>
       \/ /\ inst' = [NewInstrument(portname, mode) EXCEPT !.serial = NoSerial]
          /\ stdout' = Append(stdout, SerialIsNone)
          /\ pc' = "exited"
          /\ UNCHANGED exc
       \/ /\ exc' = "SerialException"
          /\ pc' = "exited"
          /\ UNCHANGED <<inst, stdout>>
    /\ UNCHANGED <<argv, argi, mode, baudrate, portname, sensor, sensorInts>>
    /\ UNCHANGED loopVars

(* inst.serial.timeout = TIMEOUT; inst.serial.baudrate = baudrate *)
Configured(i, b) ==
    [i EXCEPT !.serial = [baudrate |-> b, timeout |-> TIMEOUT]]

ConfigureSerial ==
    /\ pc = "configure"
    /\ inst' = Configured(inst, baudrate)
    /\ pc' = "create_sensor"
    /\ UNCHANGED <<argv, argi, mode, baudrate, portname, sensor, stdout, exc, sensorInts>>
    /\ UNCHANGED loopVars

(* sensor = adafruit_dht.DHT11(DHT_PIN), outside any try *)
CreateSensor ==
    /\ pc = "create_sensor"
    /\ \/ /\ sensor' = TRUE
          /\ pc' = "read_temp"
          /\ UNCHANGED exc
       \/ /\ exc' \in SensorErrors
          /\ pc' = "exited"
          /\ UNCHANGED sensor
    /\ UNCHANGED <<argv, argi, mode, baudrate, portname, inst, stdout, sensorInts>>
    /\ UNCHANGED loopVars

-----------------------------------------------------------------------------
(* The while-True loop of main *)

AbsorbsNothing(e) == FALSE
AbsorbsAll(e) == TRUE
AbsorbsValueErrors(e) == IsRuntimeError(e) \/ e \in {"TypeError", "ValueError"}
AbsorbsTransport(e) == IsRuntimeError(e) \/ e \in TransportErrors

(* except RuntimeError: continue / except Exception: raise error.         *)
Absorbs(e) == IsRuntimeError(e)

ContinueToSetup == "create_inst"
ContinueToHumidity == "read_hum"
ContinueBreaks == "exited"

(* Where "continue" resumes: the top of the loop, without the sleep.      *)
ContinueTo == "read_temp"

(* An exception of class e raised in the try block at position at.        *)
Raise(e, at) ==
    /\ lastOutcome' = [end |-> IF Absorbs(e) THEN "absorbed" ELSE "raised",
                       at |-> at, error |-> e]
    /\ pc' = IF Absorbs(e) THEN ContinueTo ELSE "exited"
    /\ exc' = IF Absorbs(e) THEN exc ELSE e

SensorReturns == {NoValue} \cup {Int16(v) : v \in sensorInts}

(* temp = sensor.temperature: the first statement of an iteration *)
ReadTemperature ==
    /\ pc = "read_temp"
    /\ \E d \in 0..MaxReadDur :
          /\ cycleDur' = d
          /\ waited' = 0
          /\ cycleWrites' = <<>>
          /\ shownBefore' = regs
          /\ humFresh' = FALSE
          /\ \/ /\ temp' \in SensorReturns
                /\ tempFresh' = TRUE
                /\ pc' = "read_hum"
                /\ UNCHANGED <<exc, lastOutcome>>
             \/ /\ \E e \in SensorErrors : Raise(e, "read_temp")
                /\ tempFresh' = FALSE
                /\ UNCHANGED temp
    /\ UNCHANGED <<startupVars, sensorInts, humidity, regs, inflight, ackDiff>>

(* humidity = sensor.humidity *)
ReadHumidity ==
    /\ pc = "read_hum"
    /\ \E d \in 0..MaxReadDur :
          /\ cycleDur' = cycleDur + d
          /\ \/ /\ humidity' \in SensorReturns
                /\ humFresh' = TRUE
                /\ pc' = "write_temp"
                /\ UNCHANGED <<exc, lastOutcome>>
             \/ /\ \E e \in SensorErrors : Raise(e, "read_hum")
                /\ UNCHANGED <<humidity, humFresh>>
    /\ UNCHANGED <<startupVars, sensorInts, temp, tempFresh, regs, inflight,
                   cycleWrites, waited, ackDiff, shownBefore>>

(* show_current_values: the two calls of write_register, in order.  Each  *)
(* is [at, address, value, next]: the position of the call, its register, *)
(* the value it sends and the position after it.                          *)
WriteCallsHumidityFirst ==
    << [at |-> "write_temp", address |-> HUMIDITY_ADDRESS, value |-> humidity,
        next |-> "write_hum"],
       [at |-> "write_hum", address |-> TEMP_ADDRESS, value |-> temp,
        next |-> "sleep"] >>

WriteCallsCrossed ==
    << [at |-> "write_temp", address |-> TEMP_ADDRESS, value |-> humidity,
        next |-> "write_hum"],
       [at |-> "write_hum", address |-> HUMIDITY_ADDRESS, value |-> temp,
        next |-> "sleep"] >>

WriteCalls ==
    << [at |-> "write_temp", address |-> TEMP_ADDRESS, value |-> temp,
        next |-> "write_hum"],
       [at |-> "write_hum", address |-> HUMIDITY_ADDRESS, value |-> humidity,
        next |-> "sleep"] >>

CallAt(at) == CHOOSE k \in 1..Len(WriteCalls) : WriteCalls[k].at = at

(* instr.write_register(address, value): the value is checked and the     *)
(* request is transmitted.                                                *)
WriteRegister ==
    /\ pc \in {"write_temp", "write_hum"}
    /\ LET call == WriteCalls[CallAt(pc)]
       IN  IF IsNone(call.value) THEN
               /\ Raise(NoneRaises, call.at)
               /\ UNCHANGED <<inflight, cycleWrites>>
           ELSE IF ~FitsRegister(call.value[1]) THEN
               /\ Raise(RangeRaises, call.at)
               /\ UNCHANGED <<inflight, cycleWrites>>
           ELSE
               /\ inflight' = <<Frame(inst.slaveaddress, call.address, call.value[1])>>
               /\ cycleWrites' = Append(cycleWrites,
                      [at |-> call.at, frame |-> inflight'[1], status |-> "sent"])
               /\ pc' = "await_" \o call.at
               /\ UNCHANGED <<exc, lastOutcome>>
    /\ UNCHANGED <<startupVars, sensorInts, temp, humidity, tempFresh, humFresh,
                   regs, cycleDur, waited, ackDiff, shownBefore>>

(* The display stores the value of a frame addressed to it *)
Apply(r, frame) ==
    IF frame.slave = DisplaySlaveId /\ frame.address \in DOMAIN r
    THEN [r EXCEPT ![frame.address] = Stored(frame)]
    ELSE r

Mark(ws, status) == [ws EXCEPT ![Len(ws)].status = status]

(* The reply to the request in flight: the acknowledgment, or an error.   *)
(* A lost or damaged reply leaves the register written or not; an         *)
(* exception reply leaves it unwritten; no reply costs the timeout.       *)
WriteReply ==
    /\ pc \in {"await_write_temp", "await_write_hum"}
    /\ LET at == IF pc = "await_write_temp" THEN "write_temp" ELSE "write_hum"
           call == WriteCalls[CallAt(at)]
           frame == inflight[1]
       IN  \/ /\ frame.slave = DisplaySlaveId
              /\ frame.address \in DOMAIN regs
              /\ regs' = Apply(regs, frame)
              /\ cycleWrites' = Mark(cycleWrites, "ack")
              /\ ackDiff' = IF at = "write_temp" THEN ackDiff + 1 ELSE ackDiff - 1
              /\ cycleDur' = cycleDur + 1
              /\ pc' = call.next
              /\ lastOutcome' = IF call.next = "sleep"
                                THEN [end |-> "published", at |-> at, error |-> None]
                                ELSE lastOutcome
              /\ UNCHANGED exc
           \/ \E e \in WriteErrors :
              /\ regs' \in IF e = "SlaveReportedException"
                           THEN {regs} ELSE {regs, Apply(regs, frame)}
              /\ cycleWrites' = Mark(cycleWrites, "failed")
              /\ UNCHANGED ackDiff
              /\ cycleDur' = cycleDur + (IF e = "NoResponseError" THEN TIMEOUT ELSE 1)
              /\ Raise(e, at)
    /\ inflight' = <<>>
    /\ UNCHANGED <<startupVars, sensorInts, temp, humidity, tempFresh, humFresh, waited,
                   shownBefore>>

SleepForFixedRate(dur) == SleepDelay - dur

(* time.sleep(2.0): the delay does not depend on the iteration's duration *)
SleepFor(dur) == SleepDelay

Sleep ==
    /\ pc = "sleep"
    /\ waited' = waited + SleepFor(cycleDur)
    /\ pc' = "read_temp"
    /\ UNCHANGED <<startupVars, sensorInts, exc, temp, humidity, tempFresh, humFresh,
                   regs, inflight, cycleWrites, cycleDur, lastOutcome, ackDiff,
                   shownBefore>>

-----------------------------------------------------------------------------
Next ==
    \/ ParseStep
    \/ ParseReturn
    \/ CreateInstrument
    \/ ConfigureSerial
    \/ CreateSensor
    \/ ReadTemperature
    \/ ReadHumidity
    \/ WriteRegister
    \/ WriteReply
    \/ Sleep

Spec == Init /\ [][Next]_vars

(* The process is never suspended for good: while main has a next        *)
(* statement it is eventually executed, and every blocking call (sensor  *)
(* read, write with its timeout, sleep) returns.                         *)
(* Checked on the argument lists of LoopArgvSet and the small range of   *)
(* sensor values.                                                        *)
InitLoop == Init /\ argv \in LoopArgvSet /\ sensorInts = SensorIntsSmall

FairSpec == InitLoop /\ [][Next]_vars /\ WF_vars(Next)

-----------------------------------------------------------------------------
(* Vocabulary of the properties *)

ReadPcs == {"read_temp", "read_hum"}
AwaitPcs == {"await_write_temp", "await_write_hum"}
LoopPcs == ReadPcs \cup {"write_temp", "write_hum", "sleep"} \cup AwaitPcs

(* The step in which the sensor read at pc raises *)
ReadRaises ==
    \/ pc = "read_temp" /\ ~tempFresh'
    \/ pc = "read_hum" /\ ~humFresh'

(* The step in which the reply to a write is an error *)
WriteFails ==
    /\ pc \in AwaitPcs
    /\ cycleWrites'[Len(cycleWrites')].status = "failed"

(* The value a transmitted frame was built from *)
SentValue(w) == IF w.at = "write_temp" THEN temp ELSE humidity
SentFresh(w) == IF w.at = "write_temp" THEN tempFresh ELSE humFresh

-----------------------------------------------------------------------------
(* C1: when a sensor read (temperature or humidity) raises RuntimeError,   *)
(* the iteration transmits no write and changes no register, the loop      *)
(* goes on to a new sensor read, whose every outcome is possible again;    *)
(* and whatever an iteration transmits is the value that same iteration    *)
(* read, never one left over from an earlier iteration.                    *)
C1_PublishedAreFresh ==
    \A k \in 1..Len(cycleWrites) :
        /\ SentFresh(cycleWrites[k])
        /\ SentValue(cycleWrites[k]) = Int16(Stored(cycleWrites[k].frame))

C1_AfterTransient ==
    (pc = "read_temp" /\ lastOutcome.end = "absorbed" /\ lastOutcome.at \in ReadPcs)
        => /\ cycleWrites = <<>>
           /\ inflight = <<>>
           /\ exc = None
           /\ \A r \in SensorReturns : ENABLED (ReadTemperature /\ temp' = r)

C1_TransientReadSkipsCycle ==
    /\ [](C1_PublishedAreFresh /\ C1_AfterTransient)
    /\ [][(ReadRaises /\ lastOutcome'.error = "RuntimeError")
            => /\ pc' = "read_temp"
               /\ cycleWrites' = <<>>
               /\ regs' = regs
               /\ exc' = None]_vars

(* The iteration after a transient failure of the humidity read publishes *)
C1_Witness ==
    /\ lastOutcome.end = "absorbed"
    /\ lastOutcome.at = "read_hum"
    /\ pc = "await_write_hum"
    /\ temp = Int16(300)

-----------------------------------------------------------------------------
(* C2: when the reply to either write is a transport error (no response,  *)
(* a reply failing its integrity check, an exception reply of the slave), *)
(* the error leaves main uncaught: the process has exited with that       *)
(* error, and an exited process takes no further step, so no sensor read  *)
(* and no write follows.                                                  *)
C2_TransportErrorTerminates ==
    /\ [][(WriteFails /\ lastOutcome'.error \in TransportErrors)
            => /\ pc' = "exited"
               /\ exc' = lastOutcome'.error
               /\ lastOutcome'.end = "raised"]_vars
    /\ [][pc # "exited"]_vars

C2_Witness ==
    /\ pc = "exited"
    /\ exc = "InvalidResponseError"
    /\ lastOutcome.at = "write_hum"
    /\ cycleWrites[1].status = "ack"

-----------------------------------------------------------------------------
(* C3 (as claimed): whenever the loop is about to read the sensor after   *)
(* an iteration whose sensor read failed with RuntimeError, the           *)
(* inter-cycle delay has been waited since that failure.                  *)
C3_WaitAfterTransient ==
    (pc = "read_temp" /\ lastOutcome.end = "absorbed" /\ lastOutcome.at \in ReadPcs)
        => waited = SleepDelay

-----------------------------------------------------------------------------
(* C4: whenever the loop is about to read the sensor after an iteration   *)
(* that published (both writes acknowledged), exactly one inter-cycle     *)
(* delay of 2.0 s has been waited since the publish, whatever the         *)
(* duration of that iteration; nothing is waited before the publish ends. *)
C4_DelayAfterPublish ==
    /\ (pc = "read_temp" /\ lastOutcome.end = "published") => waited = 200
    /\ pc = "sleep" => (waited = 0 /\ lastOutcome.end = "published")

(* A slow iteration (a read took time) was followed by the full delay *)
C4_Witness ==
    /\ pc = "read_temp"
    /\ lastOutcome.end = "published"
    /\ cycleDur > 2
    /\ waited = SleepDelay

-----------------------------------------------------------------------------
(* C5: in every iteration the frames transmitted are, in order, at most   *)
(* one to the temperature register and then at most one to the humidity   *)
(* register; the humidity frame is sent only once the temperature write   *)
(* is acknowledged; and while the sensor is being read no request is in   *)
(* flight or unanswered.                                                  *)
C5_WriteOrder ==
    /\ Len(cycleWrites) <= 2
    /\ Len(cycleWrites) >= 1 => cycleWrites[1].frame.address = TEMP_ADDRESS
    /\ Len(cycleWrites) = 2 =>
          /\ cycleWrites[2].frame.address = HUMIDITY_ADDRESS
          /\ cycleWrites[1].status = "ack"
    /\ pc \in ReadPcs =>
          /\ inflight = <<>>
          /\ \A k \in 1..Len(cycleWrites) : cycleWrites[k].status # "sent"
    /\ pc \in AwaitPcs <=> inflight # <<>>

C5_Witness ==
    /\ Len(cycleWrites) = 2
    /\ cycleWrites[2].status = "ack"
    /\ pc = "read_temp"

-----------------------------------------------------------------------------
(* C6: a temperature and a humidity that fit the unsigned 16-bit register *)
(* are both transmitted, and once both writes are acknowledged the        *)
(* temperature register holds the temperature and the humidity register   *)
(* the humidity.                                                          *)
InRange(x) == ~IsNone(x) /\ FitsRegister(x[1])

-----------------------------------------------------------------------------
(* C7: an exception raised in the loop is absorbed exactly when it is a   *)
(* RuntimeError of a sensor read; every other exception, those raised     *)
(* while publishing included, has ended the process with that exception.  *)
C7_OnlySensorTransientAbsorbed ==
    /\ lastOutcome.end = "absorbed" =>
          (lastOutcome.at \in ReadPcs /\ IsRuntimeError(lastOutcome.error))
    /\ lastOutcome.end = "raised" =>
          /\ pc = "exited"
          /\ exc = lastOutcome.error
          /\ ~IsRuntimeError(exc)
    /\ (pc = "exited" /\ sensor) => lastOutcome.end = "raised"

(* A failure raised while publishing ended the process *)
C7_Witness ==
    /\ pc = "exited"
    /\ exc = "ValueError"
    /\ lastOutcome.at = "write_hum"
    /\ regs[TEMP_ADDRESS] = 300

-----------------------------------------------------------------------------
(* C8: the parser, on reaching an argument that is "-b" or "-D" with      *)
(* nothing after it, prints the usage message of that option and exits    *)
(* at once; and in a run whose arguments hold such a flag no instrument   *)
(* is ever created, no sensor is read and no frame is transmitted.        *)
BareFlag(arg) == arg = ArgB \/ arg = ArgD
UsageOf(arg) == IF arg = ArgB THEN UsageB ELSE UsageD
HasBareFlag == \E k \in 1..Len(argv) : BareFlag(argv[k])

C8_BareFlagExits ==
    /\ [](HasBareFlag =>
            /\ pc \in {"parse", "exited"}
            /\ inst = NoInst
            /\ ~sensor
            /\ ~tempFresh
            /\ cycleWrites = <<>>
            /\ regs = [a \in RegisterAddresses |-> 0])
    /\ [][(pc = "parse" /\ argi <= Len(argv) /\ BareFlag(argv[argi]))
            => /\ pc' = "exited"
               /\ exc' = "SystemExit"
               /\ stdout' = <<UsageOf(argv[argi])>>
               /\ inst' = NoInst]_vars

(* The bare -D flag was reached after a well-formed argument *)
C8_Witness ==
    /\ argv = <<ScriptName, ArgAscii, ArgD>>
    /\ pc = "exited"
    /\ stdout = <<UsageD>>

-----------------------------------------------------------------------------
(* C9: once the loop runs, the instrument has the device path, the        *)
(* framing and the baud rate of the last argument giving each (the        *)
(* default device, RTU and 115200 when none does), the slave address      *)
(* 0x7B and the timeout 0.3 s.                                            *)
RECURSIVE LastWhere(_, _)
(* The greatest position k <= n of argv with P(argv[k]), or 0 *)
LastWhere(P(_), n) ==
    IF n = 0 THEN 0
    ELSE IF P(argv[n]) THEN n ELSE LastWhere(P, n - 1)

IsModeFlag(arg) == StartsWith(arg, ArgAscii) \/ StartsWith(arg, ArgRtu)
IsBaudFlag(arg) == StartsWith(arg, ArgB)
IsPortFlag(arg) == StartsWith(arg, ArgD)

GivenMode ==
    LET k == LastWhere(IsModeFlag, Len(argv))
    IN  IF k = 0 THEN "rtu"
        ELSE IF StartsWith(argv[k], ArgAscii) THEN "ascii" ELSE "rtu"

GivenBaudrate ==
    LET k == LastWhere(IsBaudFlag, Len(argv))
    IN  IF k = 0 THEN 115200 ELSE IntOf(From2(argv[k]))

GivenPort ==
    LET k == LastWhere(IsPortFlag, Len(argv))
    IN  IF k = 0 THEN DEFAULT_PORT_NAME ELSE From2(argv[k])

C9_SessionAsGiven ==
    pc \in LoopPcs =>
        /\ inst.port = GivenPort
        /\ inst.mode = GivenMode
        /\ inst.serial.baudrate = GivenBaudrate
        /\ inst.slaveaddress = 123
        /\ inst.serial.timeout = 30
        /\ (Len(argv) = 1 =>
              /\ inst.mode = MODE_RTU
              /\ inst.serial.baudrate = 115200
              /\ inst.port = DEFAULT_PORT_NAME)

(* Two baud rates were given: the loop runs with the second *)
C9_Witness ==
    /\ argv = <<ScriptName, ArgB9600, ArgB2400>>
    /\ pc = "read_hum"
    /\ inst.serial.baudrate = 2400

-----------------------------------------------------------------------------
(* C10 (as claimed): whenever the process has ended before the loop       *)
(* started (a malformed argument, an unavailable serial device or         *)
(* sensor), it printed a message, and no sensor read and no write         *)
(* happened.                                                              *)
EndedAtStartup == pc = "exited" /\ ~sensor

C10_StartupErrorPrinted ==
    EndedAtStartup =>
        /\ stdout # <<>>
        /\ ~tempFresh
        /\ cycleWrites = <<>>

-----------------------------------------------------------------------------
(* C11: every frame transmitted, in any iteration, is addressed to slave  *)
(* 0x7B; the frame of the temperature call goes to register 106 and       *)
(* carries the temperature, the frame of the humidity call goes to        *)
(* register 306 and carries the humidity; no other register is written.   *)
FrameAsMapped(w) ==
    /\ w.frame.slave = 123
    /\ w.at = "write_temp" =>
          (w.frame.address = 106 /\ Int16(Stored(w.frame)) = temp)
    /\ w.at = "write_hum" =>
          (w.frame.address = 306 /\ Int16(Stored(w.frame)) = humidity)
    /\ w.at \in {"write_temp", "write_hum"}

C11_FixedRegisterMap ==
    /\ \A k \in 1..Len(cycleWrites) : FrameAsMapped(cycleWrites[k])
    /\ inflight # <<>> => inflight[1] = cycleWrites[Len(cycleWrites)].frame
    /\ DOMAIN regs = {106, 306}

(* A second iteration has sent both frames *)
C11_Witness ==
    /\ Len(cycleWrites) = 2
    /\ pc = "await_write_hum"
    /\ regs[306] = 300
    /\ inst.mode = MODE_ASCII

-----------------------------------------------------------------------------
(* C12: the instrument is created once, while main has none, and          *)
(* configured once right after; from then on no step, in an iteration     *)
(* that publishes, fails transiently or ends the process, changes its     *)
(* port, framing, baud rate, slave address or timeout; and no sensor read *)
(* or write happens before it is created and configured.                  *)
SessionReady ==
    /\ inst # NoInst
    /\ inst.serial # NoSerial
    /\ inst.serial.timeout = TIMEOUT

C12_SessionFixed ==
    /\ [][inst' # inst =>
            \/ pc = "create_inst" /\ inst = NoInst
            \/ pc = "configure" /\ pc' = "create_sensor"]_vars
    /\ [][(pc \in LoopPcs) => (pc' \in (LoopPcs \cup {"exited"}))]_vars
    /\ []((pc \in LoopPcs \/ sensor) => SessionReady)

(* The iteration after a transient failure runs on the same session *)
C12_Witness ==
    /\ pc = "await_write_temp"
    /\ lastOutcome.end = "absorbed"
    /\ inst.mode = MODE_ASCII
    /\ inst.serial.baudrate = 2400
    /\ inflight[1].slave = 123

-----------------------------------------------------------------------------
(* C13: the loop has no final position of its own: in the loop a next     *)
(* step is always possible, and the process leaves the loop only by an    *)
(* exception that is not a RuntimeError.  When it keeps running, the      *)
(* sensor is read again and again; and once both values are read, either  *)
(* a failure that is not transient ends the process or the two values,    *)
(* unchanged, are published, the delay is slept and the sensor is read    *)
(* again.                                                                 *)
PublishPcs == {"write_temp", "write_hum"} \cup AwaitPcs

C13_LoopNeverStops ==
    /\ []((pc \in LoopPcs) => ENABLED <<Next>>_vars)
    /\ []((pc = "exited" /\ sensor) => (exc # None /\ ~IsRuntimeError(exc)))
    /\ ([]<>(pc = "read_temp") \/ <>(pc = "exited"))
    /\ ((pc = "write_temp") ~> (pc = "sleep" \/ pc = "exited"))
    /\ ((pc = "sleep") ~> (pc = "read_temp"))
    /\ [][(pc \in PublishPcs) => (temp' = temp /\ humidity' = humidity)]_vars
    /\ [][(pc = "sleep") => (pc' = "read_temp" /\ regs' = regs)]_vars

(* After a publish and the delay, the sensor is about to be read again *)
C13_Witness ==
    /\ pc = "read_temp"
    /\ lastOutcome.end = "published"
    /\ waited = SleepDelay
    /\ Int16(regs[TEMP_ADDRESS]) = temp
    /\ Int16(regs[HUMIDITY_ADDRESS]) = humidity

-----------------------------------------------------------------------------
(* C14, as stated: acknowledged temperature writes minus acknowledged     *)
(* humidity writes is 0 or 1; it is 1 only between the two writes of an   *)
(* iteration or after the process ended on a failed humidity write, and   *)
(* then the display holds the new temperature and the humidity it showed  *)
(* before the iteration.                                                  *)
BetweenWrites == pc \in {"write_hum", "await_write_hum"}

EndedOnHumidityWrite ==
    pc = "exited" /\ lastOutcome.end = "raised" /\ lastOutcome.at = "write_hum"

AckDiffShape ==
    /\ ackDiff \in {0, 1}
    /\ ackDiff = 1 => (BetweenWrites \/ EndedOnHumidityWrite)

C14_AckedDifference ==
    /\ AckDiffShape
    /\ (ackDiff = 1 /\ EndedOnHumidityWrite) =>
          /\ Int16(regs[TEMP_ADDRESS]) = temp
          /\ regs[HUMIDITY_ADDRESS] = shownBefore[HUMIDITY_ADDRESS]

ReplyLostOrDamaged == lastOutcome.error \in {"NoResponseError", "InvalidResponseError"}

(* C14, amended: the same, except that after a humidity write whose reply *)
(* was lost or damaged the display may already hold the new humidity: it  *)
(* then holds the new temperature together with either the humidity it    *)
(* showed before the iteration or the one just sent.                      *)
C14_AckedDifferenceAmended ==
    /\ AckDiffShape
    /\ (ackDiff = 1 /\ EndedOnHumidityWrite) =>
          /\ Int16(regs[TEMP_ADDRESS]) = temp
          /\ \/ regs[HUMIDITY_ADDRESS] = shownBefore[HUMIDITY_ADDRESS]
             \/ ReplyLostOrDamaged /\ Int16(regs[HUMIDITY_ADDRESS]) = humidity

C14_Witness ==
    /\ ackDiff = 1 /\ EndedOnHumidityWrite
    /\ exc = "SlaveReportedException"
    /\ regs[TEMP_ADDRESS] # shownBefore[TEMP_ADDRESS]
    /\ regs[HUMIDITY_ADDRESS] = shownBefore[HUMIDITY_ADDRESS]
    /\ Int16(regs[HUMIDITY_ADDRESS]) # humidity

-----------------------------------------------------------------------------
(* C15: every value transmitted in an iteration is the value the sensor   *)
(* returned in that same iteration: the step that transmits a frame sends *)
(* the local read since the iteration began, an iteration abandoned at    *)
(* the humidity read has written nothing, and the next iteration reads    *)
(* the temperature anew before it can write.                              *)
Transmits == inflight = <<>> /\ inflight' # <<>>

C15_WrittenIsThisCyclesRead ==
    /\ []((pc \in PublishPcs) => (tempFresh /\ humFresh))
    /\ [][Transmits =>
            LET f == inflight'[1]
            IN  /\ pc = "write_temp" =>
                     (tempFresh /\ f.address = TEMP_ADDRESS /\ Int16(Stored(f)) = temp)
                /\ pc = "write_hum" =>
                     (humFresh /\ f.address = HUMIDITY_ADDRESS /\ Int16(Stored(f)) = humidity)]_vars
    /\ [][(pc = "read_hum" /\ pc' = "read_temp") =>
            (cycleWrites' = <<>> /\ regs' = regs /\ inflight' = <<>>)]_vars
    /\ [][(pc = "read_temp" /\ pc' # "read_temp" /\ pc' # "exited") =>
            (pc' = "read_hum" /\ tempFresh' /\ ~humFresh')]_vars

(* After an iteration abandoned at the humidity read, the next one        *)
(* transmits the temperature it read itself.                              *)
C15_Witness ==
    /\ lastOutcome.end = "absorbed"
    /\ lastOutcome.at = "read_hum"
    /\ pc = "await_write_temp"
    /\ tempFresh
    /\ temp = Int16(0)
    /\ Stored(inflight[1]) = 0

-----------------------------------------------------------------------------
(* C16: every transmitted frame carries a value of 0..65535 in two bytes; *)
(* a write_register call whose value is None or outside that range        *)
(* transmits nothing and changes no register, and the exception it raises *)
(* is not a RuntimeError, so it ends the process.                         *)
ValueAt(at) == SentValue([at |-> at])

TwoBytes(f) == f.hi \in 0..255 /\ f.lo \in 0..255

C16_OnlyRegisterValuesSent ==
    /\ [](/\ \A k \in 1..Len(cycleWrites) : TwoBytes(cycleWrites[k].frame)
          /\ \A k \in 1..Len(inflight) : TwoBytes(inflight[k]))
    /\ [][Transmits =>
            (InRange(ValueAt(pc)) /\ Stored(inflight'[1]) = ValueAt(pc)[1])]_vars
    /\ [][(pc \in {"write_temp", "write_hum"} /\ ~InRange(ValueAt(pc))) =>
            /\ pc' = "exited"
            /\ exc' \in {"TypeError", "ValueError"}
            /\ ~IsRuntimeError(exc')
            /\ lastOutcome'.end = "raised"
            /\ inflight' = <<>>
            /\ cycleWrites' = cycleWrites
            /\ regs' = regs]_vars

(* The temperature is absent: nothing was transmitted, the process ended  *)
C16_Witness ==
    /\ pc = "exited"
    /\ exc = "TypeError"
    /\ lastOutcome.at = "write_temp"
    /\ temp = NoValue
    /\ cycleWrites = <<>>
    /\ regs = shownBefore

=============================================================================
